---------------------------- MODULE Spec2Model ----------------------------
(***************************************************************************)
(* A model of rcpio (src/src/lib.rs, src/src/defs.rs): the cpio NEWC/CRC   *)
(* header codec, the entry iterator, the archive builder, and the          *)
(* extraction / insertion engine working against a filesystem.             *)
(*                                                                         *)
(* Archives are sequences of bytes (integers 0..255).  Paths of the        *)
(* filesystem are sequences of components, each component a sequence of    *)
(* bytes.  Results of fallible functions are records [ok, val, err].       *)
(***************************************************************************)
EXTENDS Integers, Sequences, FiniteSets, TLC

VARIABLES
    fs,        \* the filesystem: resolved absolute path -> node
    entries,   \* CpioBuilder.entries: sequence of <<fs_path, archive_path>>
    bformat,   \* CpioBuilder.format
    cpio,      \* the loaded archive: Cpio { mem, format }
    iter,      \* CpioEntryIter { index, trailer_seen } and what next() last returned
    res        \* what the last operation returned to its caller

vars == <<fs, entries, bformat, cpio, iter, res>>

(***************************************************************************)
(* Bounds of the model.                                                    *)
(***************************************************************************)
MaxEntries == 2

(***************************************************************************)
(* Fixed-width integers.  TLC's integers end at 2^31 - 1: every number of  *)
(* the model (sizes, offsets, header field values) stays below 2^31, and   *)
(* a 32-bit word whose top bit matters (a raw device number) is a function *)
(* from bit positions 0..31 to {0, 1}.                                     *)
(***************************************************************************)
\* n as u32, for 0 <= n < 2^31
U32(n) == ((n \div 65536) % 65536) * 65536 + (n % 65536)

\* a & b on integers
RECURSIVE BitAnd(_, _)
BitAnd(a, b) ==
    IF a = 0 \/ b = 0 THEN 0
    ELSE (a % 2) * (b % 2) + 2 * BitAnd(a \div 2, b \div 2)

BitPos == 0..31

\* the word of an integer below 2^31
ToWord(n) == [i \in BitPos |-> IF i = 31 THEN 0 ELSE (n \div (2 ^ i)) % 2]

\* the integer of a word whose top bit is clear
RECURSIVE WordSum(_, _)
WordSum(w, i) == IF i > 30 THEN 0 ELSE w[i] * (2 ^ i) + WordSum(w, i + 1)

FromWord(w) == WordSum(w, 0)

\* w >> n, w << n, a & b, a | b on u32
ShrW(w, n) == [i \in BitPos |-> IF i + n <= 31 THEN w[i + n] ELSE 0]

ShlW(w, n) == [i \in BitPos |-> IF i >= n THEN w[i - n] ELSE 0]

AndW(a, b) == [i \in BitPos |-> a[i] * b[i]]

OrW(a, b) == [i \in BitPos |-> IF a[i] = 1 \/ b[i] = 1 THEN 1 ELSE 0]

Ok(v) == [ok |-> TRUE, val |-> v, err |-> "none"]

Err(e) == [ok |-> FALSE, val |-> 0, err |-> e]

(***************************************************************************)
(* src/src/defs.rs                                                         *)
(***************************************************************************)
CPIO_MAGIC_LEN == 6

CPIO_FIELD_LEN == 8

CPIO_HEADER_LEN == 110

\* b"070701" and b"070702"
NEWC_MAGIC == <<48, 55, 48, 55, 48, 49>>

CRC_MAGIC == <<48, 55, 48, 55, 48, 50>>

\* b"TRAILER!!!\0"
TRAILER_NAME == <<84, 82, 65, 73, 76, 69, 82, 33, 33, 33, 0>>

\* octal 0o170000 .. 0o010000
S_IFMT == 61440

S_IFSOCK == 49152

S_IFLNK == 40960

S_IFREG == 32768

S_IFBLK == 24576

S_IFDIR == 16384

S_IFCHR == 8192

S_IFIFO == 4096

(***************************************************************************)
(* Hexadecimal text.                                                       *)
(***************************************************************************)
\* one digit of format!("{:08x}").to_uppercase()
HexDigit(d) == IF d < 10 THEN 48 + d ELSE 55 + d

\* format!("{:08x}", n).to_uppercase() of a u32
Hex8(n) == [i \in 1..8 |-> HexDigit((n \div (16 ^ (8 - i))) % 16)]

\* char::to_digit(16): -1 when the byte is no hexadecimal digit
DigitVal(b) ==
    IF b >= 48 /\ b <= 57 THEN b - 48
    ELSE IF b >= 65 /\ b <= 70 THEN b - 55
    ELSE IF b >= 97 /\ b <= 102 THEN b - 87
    ELSE -1

RECURSIVE DigitsVal(_, _, _)
DigitsVal(s, i, acc) ==
    IF i > Len(s) THEN acc
    ELSE DigitsVal(s, i + 1, acc * 16 + DigitVal(s[i]))

\* from_utf8(field) then u64/usize::from_str_radix(str, 16): a leading '+' is
\* accepted, every other byte must be a hexadecimal digit
ParseDigits(digits) ==
    IF Len(digits) = 0 \/ \E i \in 1..Len(digits) : DigitVal(digits[i]) < 0
    THEN Err("EntryConversionError")
    ELSE Ok(DigitsVal(digits, 1, 0))

ParseHex(s) == ParseDigits(IF Len(s) > 1 /\ s[1] = 43 THEN SubSeq(s, 2, Len(s)) ELSE s)

(***************************************************************************)
(* Device numbers: major and minor (lib.rs 166-172).                       *)
(***************************************************************************)
\* on words: 0xfff is 4095, 0xff is 255, 0xfff00 is 1048320
\* a major that keeps 8 bits only
major_byte(dev) == AndW(ShrW(dev, 8), ToWord(255))

major(dev) == AndW(ShrW(dev, 8), ToWord(4095))

minor(dev) == OrW(AndW(dev, ToWord(255)), AndW(ShrW(dev, 12), ToWord(1048320)))


(***************************************************************************)
(* The filesystem the builder reads and the extraction writes.             *)
(* fs maps each existing resolved absolute path to its node                *)
(* [type, perm, data, ino]; data is a regular file's content or a          *)
(* symlink's target.  The root <<>> is always a directory.  Access         *)
(* permission checks of the kernel are not modelled.                       *)
(***************************************************************************)
Zeros(n) == [i \in 1..n |-> 0]

DotDot == <<46, 46>>

Dot == <<46>>

\* the process umask, octal 022
Umask == 2 * 8 + 2

\* octal 0777 and 0666 and 07777
Perm777 == 7 * 64 + 7 * 8 + 7

Perm666 == 6 * 64 + 6 * 8 + 6

PermMask == 7 * 512 + Perm777

Exists(f, p) == p \in DOMAIN f

Parent(p) == IF Len(p) = 0 THEN p ELSE SubSeq(p, 1, Len(p) - 1)

HasNul(s) == \E i \in 1..Len(s) : s[i] = 0

\* Path::components() of a byte string: split at '/', empty and "." components
\* dropped, ".." kept
RECURSIVE SplitFrom(_, _, _, _)
SplitFrom(s, i, cur, acc) ==
    LET flush == IF Len(cur) = 0 \/ cur = Dot THEN acc ELSE Append(acc, cur)
    IN  IF i > Len(s) THEN flush
        ELSE IF s[i] = 47 THEN SplitFrom(s, i + 1, <<>>, flush)
        ELSE SplitFrom(s, i + 1, Append(cur, s[i]), acc)

Comps(s) == SplitFrom(s, 1, <<>>, <<>>)

IsAbsolute(s) == Len(s) > 0 /\ s[1] = 47

\* The kernel's path walk from directory cur over comps[i..]: ".." steps to the
\* parent, an intermediate symlink is followed, every intermediate component
\* must be an existing directory.  followLast: whether a symlink in the last
\* place is followed.  Yields the resolved path, which may not exist yet.
RECURSIVE Walk(_, _, _, _, _, _)
Walk(f, cur, comps, i, followLast, fuel) ==
    IF i > Len(comps) THEN Ok(cur)
    ELSE LET c == comps[i]
             nxt == Append(cur, c)
             last == (i = Len(comps))
         IN  IF HasNul(c) THEN Err("InvalidInput")
             ELSE IF c = DotDot THEN Walk(f, Parent(cur), comps, i + 1, followLast, fuel)
             ELSE IF ~Exists(f, nxt)
                  THEN IF last THEN Ok(nxt) ELSE Err("NotFound")
             ELSE IF f[nxt].type = "lnk" /\ (~last \/ followLast)
                  THEN IF fuel = 0 THEN Err("FilesystemLoop")
                       ELSE LET t == f[nxt].data
                                base == IF IsAbsolute(t) THEN <<>> ELSE cur
                                rest == Comps(t) \o SubSeq(comps, i + 1, Len(comps))
                            IN  IF Len(t) = 0 THEN Err("NotFound")
                                ELSE Walk(f, base, rest, 1, followLast, fuel - 1)
             ELSE IF last THEN Ok(nxt)
             ELSE IF f[nxt].type = "dir"
                  THEN Walk(f, nxt, comps, i + 1, followLast, fuel)
             ELSE Err("NotADirectory")

SymlinkFuel == 2

Resolve(f, comps, followLast) == Walk(f, <<>>, comps, 1, followLast, SymlinkFuel)

\* the next free inode number
NextIno(f) ==
    LET used == {f[p].ino : p \in DOMAIN f}
    IN  1 + (CHOOSE m \in used : \A n \in used : n <= m)

\* the node at a resolved path r, or the error
NodeAt(f, r) ==
    IF ~r.ok THEN r
    ELSE IF ~Exists(f, r.val) THEN Err("NotFound")
    ELSE Ok(f[r.val])

\* symlink_metadata(path) (follow FALSE) / File::open(path) and metadata()
Stat(f, path, follow) == NodeAt(f, Resolve(f, path, follow))

ExistingAt(f, r) ==
    IF ~r.ok THEN r
    ELSE IF ~Exists(f, r.val) THEN Err("NotFound")
    ELSE r

\* std::fs::canonicalize(path): every symlink resolved, the path must exist
Canonicalize(f, path) == ExistingAt(f, Resolve(f, path, TRUE))

\* f with a new node at the resolved path at
WithNode(f, at, type, perm, data) ==
    [p \in DOMAIN f \cup {at} |->
        IF p = at
        THEN [type |-> type, perm |-> perm, data |-> data, ino |-> NextIno(f)]
        ELSE f[p]]

\* a creation that replaces what exists at the path
CreateAt_replace(f, r, type, perm, data) ==
    IF ~r.ok THEN r ELSE Ok(WithNode(f, r.val, type, perm, data))

CreateAt(f, r, type, perm, data) ==
    IF ~r.ok THEN r
    ELSE IF Exists(f, r.val) THEN Err("AlreadyExists")
    ELSE Ok(WithNode(f, r.val, type, perm, data))

\* a new object at path (open with create_new, create_dir, symlink): fails when
\* the path exists or its parent does not
CreateNode(f, path, type, perm, data) ==
    CreateAt(f, Resolve(f, path, FALSE), type, perm, data)

\* the mode of a file or directory created with mode bits under the umask
Masked(bits) == bits - BitAnd(bits, Umask)

FileCreateAt(f, r) ==
    IF ~r.ok THEN r
    ELSE IF Exists(f, r.val)
         THEN IF f[r.val].type = "reg"
              THEN Ok([f EXCEPT ![r.val].data = <<>>])
              ELSE Err("IsADirectory")
    ELSE Ok(WithNode(f, r.val, "reg", Masked(Perm666), <<>>))

\* File::create(path): the regular file created, or truncated when it exists
FileCreate(f, path) == FileCreateAt(f, Resolve(f, path, TRUE))

\* File::write of data to the file File::create opened at path
SetData(f, at, data) == [f EXCEPT ![at.val].data = data]

FileWrite(f, path, data) == SetData(f, Resolve(f, path, TRUE), data)

\* the st_mode type bits of a node
TypeBits(type) ==
    CASE type = "reg" -> S_IFREG
      [] type = "dir" -> S_IFDIR
      [] type = "lnk" -> S_IFLNK
      [] type = "fifo" -> S_IFIFO

\* the fields of MetadataExt that entry_bytes reads
MetaOf(node) ==
    [st_ino |-> node.ino,
     st_mode |-> TypeBits(node.type) + node.perm,
     st_uid |-> 1000,
     st_gid |-> 1000,
     st_nlink |-> IF node.type = "dir" THEN 2 ELSE 1,
     st_mtime |-> 1700000000,
     st_dev |-> 8 * 256 + 3 + 1048576 * 5,
     st_rdev |-> 0,
     is_symlink |-> node.type = "lnk",
     is_file |-> node.type = "reg"]

(***************************************************************************)
(* The builder (lib.rs 116-372).                                           *)
(***************************************************************************)
MagicOf(format) == IF format = "Newc" THEN NEWC_MAGIC ELSE CRC_MAGIC

\* CpioBuilderEntry::to_bytes: the magic, then the 13 fields as 8 uppercase
\* hexadecimal digits each
to_bytes(e, format) ==
    MagicOf(format)
        \o Hex8(e.c_ino) \o Hex8(e.c_mode) \o Hex8(e.c_uid) \o Hex8(e.c_gid)
        \o Hex8(e.c_nlink) \o Hex8(e.c_mtime) \o Hex8(e.c_filesize)
        \o Hex8(e.c_devmajor) \o Hex8(e.c_devminor)
        \o Hex8(e.c_rdevmajor) \o Hex8(e.c_rdevminor)
        \o Hex8(e.c_namesize) \o Hex8(e.c_check)

\* the loop res = res.wrapping_add(*b as u32) over content[lo..hi], left to
\* right from acc (split in halves to keep the evaluation shallow)
RECURSIVE SumFrom(_, _, _, _)
SumHalves(content, mid, hi, left) ==
    IF left >= 0 THEN SumFrom(content, mid + 1, hi, left) ELSE left

SumFrom(content, lo, hi, acc) ==
    IF lo > hi THEN acc
    ELSE IF lo = hi THEN U32(acc + content[lo])
    ELSE SumHalves(content, (lo + hi) \div 2, hi,
                   SumFrom(content, lo, (lo + hi) \div 2, acc))

WrappingSum(content) == SumFrom(content, 1, Len(content), 0)

\* Path::to_string_lossy of a symlink target: a byte that cannot be part of
\* UTF-8 text (0xFF) becomes U+FFFD
RECURSIVE Lossy(_, _)
Lossy(t, i) ==
    IF i > Len(t) THEN <<>>
    ELSE (IF t[i] = 255 THEN <<239, 191, 189>> ELSE <<t[i]>>) \o Lossy(t, i + 1)

\* the zero bytes that bring the absolute position curr to a multiple of 4
Pad4(curr) == IF curr % 4 # 0 THEN Zeros(4 - (curr % 4)) ELSE <<>>

\* the metadata and the content of the object lstat found
SourceOf(sm, internal_path) ==
    IF ~sm.ok THEN Err("FileSystemError")
    ELSE IF sm.val.type # "lnk"
         THEN Ok([meta |-> MetaOf(sm.val),
                  content |-> IF internal_path # Dot /\ sm.val.type = "reg"
                              THEN sm.val.data ELSE <<>>])
    ELSE Ok([meta |-> MetaOf(sm.val), content |-> Lossy(sm.val.data, 1)])

\* what entry_bytes reads from the filesystem
EntrySource(f, fs_path, internal_path) ==
    SourceOf(Stat(f, fs_path, FALSE), internal_path)

\* a checksum that sums the target of a symlink too
CheckOf_links(format, meta, content) ==
    IF format = "Newc" THEN 0 ELSE WrappingSum(content)

\* the checksum field of an entry
CheckOf(format, meta, content) ==
    IF format = "Newc" THEN 0
    ELSE IF meta.is_symlink THEN 0
    ELSE WrappingSum(content)

\* the CpioBuilderEntry built from the metadata
BuilderEntry(meta, content, internal_path, format) ==
    [c_ino       |-> U32(meta.st_ino),
     c_mode      |-> meta.st_mode,
     c_uid       |-> meta.st_uid,
     c_gid       |-> meta.st_gid,
     c_nlink     |-> U32(meta.st_nlink),
     c_mtime     |-> U32(meta.st_mtime),
     c_filesize  |-> U32(Len(content)),
     c_devmajor  |-> FromWord(major(ToWord(U32(meta.st_dev)))),
     c_devminor  |-> FromWord(minor(ToWord(U32(meta.st_dev)))),
     c_rdevmajor |-> FromWord(major(ToWord(U32(meta.st_rdev)))),
     c_rdevminor |-> FromWord(minor(ToWord(U32(meta.st_rdev)))),
     c_namesize  |-> U32(Len(internal_path) + 1),
     c_check     |-> CheckOf(format, meta, content)]

\* entry_data after the padding to the 4-byte boundary measured against
\* curr_len, the bytes emitted before this entry
Padded(data, curr_len) == data \o Pad4(curr_len + Len(data))

\* header, name and its terminating null, padding
EntryHead(header, internal_path, curr_len) ==
    Padded(header \o internal_path \o <<0>>, curr_len)

\* then content, padding
EntryLayout(header, internal_path, content, curr_len) ==
    Padded(EntryHead(header, internal_path, curr_len) \o content, curr_len)

EntryOf(src, internal_path, curr_len, format) ==
    IF ~src.ok THEN src
    ELSE Ok(EntryLayout(
                to_bytes(BuilderEntry(src.val.meta, src.val.content, internal_path, format),
                         format),
                internal_path, src.val.content, curr_len))

entry_bytes(f, fs_path, internal_path, curr_len, format) ==
    EntryOf(EntrySource(f, fs_path, internal_path), internal_path, curr_len, format)

\* defs::TRAILER without the name: the 13 fields of the trailer's header
TRAILER_FIELDS ==
    Hex8(0) \o Hex8(0) \o Hex8(0) \o Hex8(0) \o Hex8(1) \o Hex8(0) \o Hex8(0)
        \o Hex8(0) \o Hex8(0) \o Hex8(0) \o Hex8(0) \o Hex8(11) \o Hex8(0)

TRAILER == TRAILER_FIELDS \o TRAILER_NAME

\* a trailer that always carries the NEWC magic
trailer_bytes_newc(format) == NEWC_MAGIC \o TRAILER

trailer_bytes(format) == MagicOf(format) \o TRAILER

\* an insert that stores the archive path as given
InsertedPath_asgiven(archive_path) == archive_path

\* CpioBuilder::insert: an empty archive path is stored as "."
InsertedPath(archive_path) == IF Len(archive_path) = 0 THEN Dot ELSE archive_path

\* the loop of CpioBuilder::write over entries[i..]: out grows by each entry's
\* bytes, the first failure ends it
RECURSIVE WriteEntries(_, _, _, _, _)
WriteAppend(f, ents, format, i, out, eb) ==
    IF ~eb.ok THEN eb ELSE WriteEntries(f, ents, format, i + 1, out \o eb.val)

WriteEntries(f, ents, format, i, out) ==
    IF i > Len(ents) THEN Ok(out)
    ELSE WriteAppend(f, ents, format, i, out,
                     entry_bytes(f, ents[i][1], ents[i][2], Len(out), format))

\* a final padding to the decimal block size 200
WritePadding_200(len) == IF len % 200 # 0 THEN Zeros(200 - (len % 200)) ELSE <<>>

\* the final padding of CpioBuilder::write
WritePadding(len) == IF len % 200 # 0 THEN Zeros(512 - (len % 512)) ELSE <<>>

\* out after the final padding
WritePadded(out) == out \o WritePadding(Len(out))

WriteFinish(body, format) ==
    IF ~body.ok THEN body ELSE Ok(WritePadded(body.val \o trailer_bytes(format)))

\* the archive image CpioBuilder::write builds before it writes it out
WriteImage(f, ents, format) == WriteFinish(WriteEntries(f, ents, format, 1, <<>>), format)

\* the gzip sink: opaque, its output is no cpio image
Gzip(bytes) == <<31, 139, 8>> \o bytes

(***************************************************************************)
(* The decoder: CpioEntry over (mem, index) (lib.rs 52-60, 552-821).       *)
(* Offsets are 0-based as in the source; mem[k+1] is the byte at offset k. *)
(***************************************************************************)
\* &mem[from..to]
Slice(mem, from, to) == SubSeq(mem, from + 1, to)

StartsWith(mem, at, prefix) ==
    /\ at + Len(prefix) <= Len(mem)
    /\ \A i \in 1..Len(prefix) : mem[at + i] = prefix[i]

\* the InvalidArchiveError values, told apart by their message
UnrecognizedFormat == "InvalidArchiveError: Unrecognized Format"

InvalidMagic == "InvalidArchiveError: Invalid magic encountered"

MissingTrailer == "InvalidArchiveError: Archive missing trailer."

identify_format(mem) ==
    IF StartsWith(mem, 0, NEWC_MAGIC) THEN Ok("Newc")
    ELSE IF StartsWith(mem, 0, CRC_MAGIC) THEN Ok("Crc")
    ELSE Err(UnrecognizedFormat)

\* CpioEntry::new: the header must fit in what is left of the buffer
EntryNew(mem, index) ==
    IF Len(mem) - index < CPIO_HEADER_LEN THEN Err("EarlyEOFError") ELSE Ok(index)

\* the k-th (from 0) header field of the entry at index
Field(mem, index, k) ==
    Slice(mem, index + CPIO_MAGIC_LEN + k * CPIO_FIELD_LEN,
               index + CPIO_MAGIC_LEN + (k + 1) * CPIO_FIELD_LEN)

inode(mem, index) == ParseHex(Field(mem, index, 0))

mode(mem, index) == ParseHex(Field(mem, index, 1))

filesize(mem, index) == ParseHex(Field(mem, index, 6))

namesize(mem, index) == ParseHex(Field(mem, index, 11))

checksum(mem, index) == ParseHex(Field(mem, index, 12))

name_offset == CPIO_HEADER_LEN

\* a decoder that does not align
Align4_unaligned(base, pos) == pos

\* position pos (relative to base) moved up to where base + pos is a multiple of 4
Align4(base, pos) ==
    IF (base + pos) % 4 # 0 THEN pos + (4 - ((base + pos) % 4)) ELSE pos

ContentOffsetOf(index, nsize) ==
    IF ~nsize.ok THEN nsize ELSE Ok(Align4(index, name_offset + nsize.val))

\* the offset of the content from the entry's start, aligned on the absolute
\* position
file_content_offset(mem, index) == ContentOffsetOf(index, namesize(mem, index))

ContentOf(mem, index, fc_start, fc_size) ==
    IF ~fc_start.ok THEN fc_start
    ELSE IF ~fc_size.ok THEN fc_size
    ELSE IF fc_start.val + fc_size.val >= Len(mem) - index THEN Err("EarlyEOFError")
    ELSE Ok(Slice(mem, index + fc_start.val, index + fc_start.val + fc_size.val))

file_content(mem, index) ==
    ContentOf(mem, index, file_content_offset(mem, index), filesize(mem, index))

NameOf(mem, index, nsize) ==
    IF ~nsize.ok THEN nsize
    ELSE IF name_offset + nsize.val > Len(mem) - index THEN Err("EarlyEOFError")
    ELSE Ok(Slice(mem, index + name_offset, index + name_offset + nsize.val))

name(mem, index) == NameOf(mem, index, namesize(mem, index))

\* namesize()? == 0xb && name()? == b"TRAILER!!!\0": the name is read only
\* when the namesize is 0xb
TrailerOf(nsize, nm) ==
    IF ~nsize.ok THEN nsize
    ELSE IF nsize.val # 11 THEN Ok(FALSE)
    ELSE IF ~nm.ok THEN nm
    ELSE Ok(nm.val = TRAILER_NAME)

\* a classification that also wants the mode field to be zero
is_trailer_mode0(mem, index) ==
    IF Field(mem, index, 1) = Hex8(0)
    THEN TrailerOf(namesize(mem, index), name(mem, index))
    ELSE Ok(FALSE)

is_trailer(mem, index) == TrailerOf(namesize(mem, index), name(mem, index))

TypeIs(m, bits) == IF ~m.ok THEN m ELSE Ok(BitAnd(m.val, S_IFMT) = bits)

is_reg(mem, index) == TypeIs(mode(mem, index), S_IFREG)

is_dir(mem, index) == TypeIs(mode(mem, index), S_IFDIR)

is_link(mem, index) == TypeIs(mode(mem, index), S_IFLNK)

NextOf(index, fco, fsz) ==
    IF ~fco.ok THEN fco
    ELSE IF ~fsz.ok THEN fsz
    ELSE Ok(Align4(0, index + fco.val + fsz.val))

\* CpioEntry::next: the offset of the next entry
entry_next(mem, index) ==
    NextOf(index, file_content_offset(mem, index), filesize(mem, index))

valid_magic(mem, index, format) ==
    IF Len(mem) - index < CPIO_MAGIC_LEN THEN Err("EarlyEOFError")
    ELSE Ok(StartsWith(mem, index, MagicOf(format)))

(***************************************************************************)
(* The iterator (lib.rs 823-870).  A step yields the iterator's new state  *)
(* and what next() returned: kind "none" (Ok(None)), "some" (Ok(Some) of   *)
(* the entry at offset entry) or "err".                                    *)
(***************************************************************************)
IterStart == [index |-> 0, trailer_seen |-> FALSE]

Returned(index, trailer_seen, kind, entry, err) ==
    [index |-> index, trailer_seen |-> trailer_seen,
     kind |-> kind, entry |-> entry, err |-> err]

\* the step from the magic check on: seen is the trailer-seen flag by then
IterAdvance(it, seen, vm, nx) ==
    IF ~vm.ok THEN Returned(it.index, seen, "err", 0, vm.err)
    ELSE IF ~vm.val THEN Returned(it.index, seen, "err", 0, InvalidMagic)
    ELSE IF ~nx.ok THEN Returned(it.index, seen, "err", 0, nx.err)
    ELSE Returned(nx.val, seen, "some", it.index, "none")

\* the step from CpioEntry::new on
IterEntry(it, file, tr, vm, nx) ==
    IF ~file.ok THEN Returned(it.index, it.trailer_seen, "err", 0, file.err)
    ELSE IF ~tr.ok THEN Returned(it.index, it.trailer_seen, "err", 0, tr.err)
    ELSE IterAdvance(it, IF tr.val THEN TRUE ELSE it.trailer_seen, vm, nx)

\* an iterator that ends silently at the end of the buffer
iter_next_silent(it, mem, format) ==
    IF it.trailer_seen \/ it.index >= Len(mem)
    THEN Returned(it.index, it.trailer_seen, "none", 0, "none")
    ELSE IterEntry(it, EntryNew(mem, it.index), is_trailer(mem, it.index),
                   valid_magic(mem, it.index, format), entry_next(mem, it.index))

iter_next(it, mem, format) ==
    IF it.trailer_seen THEN Returned(it.index, it.trailer_seen, "none", 0, "none")
    ELSE IF it.index > Len(mem)
         THEN Returned(it.index, it.trailer_seen, "err", 0, "EarlyEOFError")
    ELSE IterEntry(it, EntryNew(mem, it.index), is_trailer(mem, it.index),
                   valid_magic(mem, it.index, format), entry_next(mem, it.index))

(***************************************************************************)
(* Extraction (lib.rs 391-440, 498-516).  An operation on the filesystem   *)
(* yields [fs, status, err]: status "ok", "err" (a returned Err) or        *)
(* "panic".                                                                *)
(***************************************************************************)
Done(f) == [fs |-> f, status |-> "ok", err |-> "none"]

Failed(f, e) == [fs |-> f, status |-> "err", err |-> e]

Panicked(f) == [fs |-> f, status |-> "panic", err |-> "none"]

\* String::from_utf8 succeeds: the model's byte strings are ASCII, or hold
\* the byte 0xFF, which is never part of UTF-8 text
IsUtf8(s) == \A i \in 1..Len(s) : s[i] < 128

\* str::trim_end_matches('\0')
RECURSIVE TrimNul(_)
TrimNul(s) ==
    IF Len(s) > 0 /\ s[Len(s)] = 0 THEN TrimNul(SubSeq(s, 1, Len(s) - 1)) ELSE s

\* std::path::absolute(output_path.join(name)): an absolute name replaces
\* the output path; ".." components are kept, not resolved
JoinedPath(output_path, trimmed) ==
    IF IsAbsolute(trimmed) THEN Comps(trimmed) ELSE output_path \o Comps(trimmed)

\* Path::starts_with: component-wise prefix
PathStartsWith(p, base) ==
    Len(p) >= Len(base) /\ SubSeq(p, 1, Len(base)) = base

\* a regular file: created exclusively, the content written, then the
\* permission bits of the mode set (fchmod keeps the low 12 bits)
RegWritten(f, made, at, fc, md) ==
    IF ~made.ok THEN Failed(f, "FileSystemError")
    ELSE IF ~fc.ok THEN Failed(made.val, fc.err)
    ELSE IF ~md.ok THEN Failed(SetData(made.val, at, fc.val), md.err)
    ELSE Done([SetData(made.val, at, fc.val) EXCEPT
                  ![at.val].perm = BitAnd(U32(md.val), PermMask)])

ExtractReg(f, joined, mem, index) ==
    RegWritten(f, CreateNode(f, joined, "reg", Masked(Perm666), <<>>),
               Resolve(f, joined, FALSE), file_content(mem, index), mode(mem, index))

DirMade(f, made) == IF ~made.ok THEN Failed(f, "FileSystemError") ELSE Done(made.val)

ExtractDir(f, joined) == DirMade(f, CreateNode(f, joined, "dir", Masked(Perm777), <<>>))

\* symlink(target, joined): an empty target or one with a null byte is refused
LinkMade(f, target, made) ==
    IF Len(target) = 0 \/ HasNul(target) \/ ~made.ok
    THEN Failed(f, "FileSystemError")
    ELSE Done(made.val)

LinkTo(f, joined, target) ==
    LinkMade(f, target, CreateNode(f, joined, "lnk", Perm777, target))

LinkOf(f, joined, fc) ==
    IF ~fc.ok THEN Failed(f, fc.err)
    ELSE IF ~IsUtf8(fc.val) THEN Failed(f, "FileSystemError")
    ELSE LinkTo(f, joined, TrimNul(fc.val))

ExtractLink(f, joined, mem, index) == LinkOf(f, joined, file_content(mem, index))

\* extract_one from the containment check on
ExtractAt(f, output_path, joined_path, mem, index, reg, dir, lnk) ==
    IF joined_path = output_path THEN Done(f)
    ELSE IF ~PathStartsWith(joined_path, output_path) THEN Failed(f, "FileSystemError")
    ELSE IF ~reg.ok THEN Failed(f, reg.err)
    ELSE IF reg.val THEN ExtractReg(f, joined_path, mem, index)
    ELSE IF dir.val THEN ExtractDir(f, joined_path)
    ELSE IF lnk.val THEN ExtractLink(f, joined_path, mem, index)
    ELSE Panicked(f)

ExtractNamed(f, output_path, mem, index, nm) ==
    IF ~nm.ok THEN Failed(f, nm.err)
    ELSE IF ~IsUtf8(nm.val) THEN Failed(f, "StringEncodingError")
    ELSE ExtractAt(f, output_path, JoinedPath(output_path, TrimNul(nm.val)), mem, index,
                   is_reg(mem, index), is_dir(mem, index), is_link(mem, index))

extract_one(f, output_path, mem, index) ==
    ExtractNamed(f, output_path, mem, index, name(mem, index))

\* the loop of Cpio::unarchive
RECURSIVE UnarchiveLoop(_, _, _, _, _)
UnarchiveNext(output_path, mem, format, r, one) ==
    IF one.status # "ok" THEN one
    ELSE UnarchiveLoop(one.fs, output_path, mem, format, r)

UnarchiveStep(f, output_path, mem, format, r, tr) ==
    IF r.kind = "none" THEN Done(f)
    ELSE IF r.kind = "err" THEN Failed(f, r.err)
    ELSE IF ~tr.ok THEN Failed(f, tr.err)
    ELSE IF tr.val THEN UnarchiveLoop(f, output_path, mem, format, r)
    ELSE UnarchiveNext(output_path, mem, format, r,
                       extract_one(f, output_path, mem, r.entry))

UnarchiveEntry(f, output_path, mem, format, r) ==
    UnarchiveStep(f, output_path, mem, format, r, is_trailer(mem, r.entry))

UnarchiveLoop(f, output_path, mem, format, it) ==
    UnarchiveEntry(f, output_path, mem, format, iter_next(it, mem, format))

\* the destination root unarchive works in: canonicalize comes first
UnarchiveRoot(f, output_path) == Canonicalize(f, output_path)

UnarchiveInto(f, root, mem, format, made) ==
    IF ~made.ok THEN Failed(f, "FileSystemError")
    ELSE UnarchiveLoop(made.val, root, mem, format, IterStart)

UnarchiveAt(f, root, mem, format) ==
    IF ~root.ok THEN Failed(f, "FileSystemError")
    ELSE IF ~Exists(f, root.val)
         THEN UnarchiveInto(f, root.val, mem, format,
                            CreateNode(f, root.val, "dir", Masked(Perm777), <<>>))
    ELSE UnarchiveLoop(f, root.val, mem, format, IterStart)

unarchive(f, output_path, mem, format) ==
    UnarchiveAt(f, UnarchiveRoot(f, output_path), mem, format)

(***************************************************************************)
(* Insertion (lib.rs 442-496).                                             *)
(***************************************************************************)
NoTrailer == 0 - 1

Scanned(status, err, index) == [status |-> status, err |-> err, index |-> index]

\* the scan of Cpio::push over the archive: the duplicate-path check and the
\* trailer's offset (NoTrailer while none was seen)
RECURSIVE PushScan(_, _, _, _, _)
PushStep(mem, format, internal_path, trailer_index, r, nm, tr) ==
    IF r.kind = "none" THEN Scanned("ok", "none", trailer_index)
    ELSE IF r.kind = "err" THEN Scanned("err", r.err, trailer_index)
    ELSE IF ~nm.ok THEN Scanned("err", nm.err, trailer_index)
    ELSE IF ~IsUtf8(nm.val) THEN Scanned("err", "StringEncodingError", trailer_index)
    ELSE IF internal_path = TrimNul(nm.val) THEN Scanned("panic", "none", trailer_index)
    ELSE IF ~tr.ok THEN Scanned("err", tr.err, trailer_index)
    ELSE PushScan(mem, format, internal_path, r,
                  IF tr.val THEN r.entry ELSE trailer_index)

PushEntry(mem, format, internal_path, trailer_index, r) ==
    PushStep(mem, format, internal_path, trailer_index, r,
             name(mem, r.entry), is_trailer(mem, r.entry))

PushScan(mem, format, internal_path, it, trailer_index) ==
    PushEntry(mem, format, internal_path, trailer_index, iter_next(it, mem, format))

\* the final padding of Cpio::push
PushPadding(len) == IF len % 100 # 0 THEN Zeros(4 - (len % 4)) ELSE <<>>

PushPadded(dat) == dat \o PushPadding(Len(dat))

Image(status, err, dat) == [status |-> status, err |-> err, dat |-> dat]

\* a rewrite that puts the new entry after the trailer
PushAppend_after(head, eb, format) ==
    IF ~eb.ok THEN Image("err", eb.err, <<>>)
    ELSE Image("ok", "none", PushPadded(head \o trailer_bytes(format) \o eb.val))

\* dat: the bytes before the trailer, the new entry, a trailer, the padding
PushAppend(head, eb, format) ==
    IF ~eb.ok THEN Image("err", eb.err, <<>>)
    ELSE Image("ok", "none", PushPadded(head \o eb.val \o trailer_bytes(format)))

PushFrom(f, fs_path, internal_path, mem, format, scan) ==
    IF scan.status # "ok" THEN Image(scan.status, scan.err, <<>>)
    ELSE IF scan.index = NoTrailer THEN Image("err", MissingTrailer, <<>>)
    ELSE PushAppend(Slice(mem, 0, scan.index),
                    entry_bytes(f, fs_path, internal_path, scan.index, format),
                    format)

\* the rewrite buffer dat of Cpio::push, or why it could not be built
PushImage(f, fs_path, internal_path, mem, format) ==
    PushFrom(f, fs_path, internal_path, mem, format,
             PushScan(mem, format, internal_path, IterStart, NoTrailer))

\* a push that creates the output file before it looks at the rewrite buffer
PushWrite_early(f, archive_path, img, out_fp) ==
    IF ~out_fp.ok THEN Failed(f, "FileSystemError")
    ELSE IF img.status = "panic" THEN Panicked(out_fp.val)
    ELSE IF img.status = "err" THEN Failed(out_fp.val, img.err)
    ELSE Done(FileWrite(out_fp.val, archive_path, img.dat))

PushWrite(f, archive_path, img, out_fp) ==
    IF img.status = "panic" THEN Panicked(f)
    ELSE IF img.status = "err" THEN Failed(f, img.err)
    ELSE IF ~out_fp.ok THEN Failed(f, "FileSystemError")
    ELSE Done(FileWrite(out_fp.val, archive_path, img.dat))

push(f, archive_path, fs_path, internal_path, mem, format) ==
    PushWrite(f, archive_path, PushImage(f, fs_path, internal_path, mem, format),
              FileCreate(f, archive_path))

(***************************************************************************)
(* The internal path archive_directory gives a file (lib.rs 884-906), and  *)
(* CpioBuilder::write (lib.rs 318-372).                                    *)
(***************************************************************************)
RECURSIVE JoinSlash(_, _)
JoinSlash(comps, i) ==
    IF i > Len(comps) THEN <<>>
    ELSE IF i = Len(comps) THEN comps[i]
    ELSE comps[i] \o <<47>> \o JoinSlash(comps, i + 1)

\* file_str.trim_start_matches(directory_path_str).trim_start_matches('/')
InternalPath(dir, file) == JoinSlash(SubSeq(file, Len(dir) + 1, Len(file)), 1)

\* CpioBuilder::write's effect on the filesystem: with gzip the output file is
\* created before the entries are read, without it after the image is built
WriteGzip(f, archive_path, early, img) ==
    IF ~early.ok THEN Failed(f, "FileSystemError")
    ELSE IF ~img.ok THEN Failed(early.val, img.err)
    ELSE Done(FileWrite(early.val, archive_path, Gzip(img.val)))

WritePlain(f, archive_path, img, late) ==
    IF ~img.ok THEN Failed(f, img.err)
    ELSE IF ~late.ok THEN Failed(f, "FileSystemError")
    ELSE Done(FileWrite(late.val, archive_path, img.val))

\* the filesystem the entries are read from
ReadFrom(f, early, gzip) == IF gzip /\ early.ok THEN early.val ELSE f

write(f, ents, format, archive_path, gzip) ==
    IF gzip
    THEN WriteGzip(f, archive_path, FileCreate(f, archive_path),
                   WriteImage(ReadFrom(f, FileCreate(f, archive_path), gzip), ents, format))
    ELSE WritePlain(f, archive_path, WriteImage(f, ents, format),
                    FileCreate(f, archive_path))

(***************************************************************************)
(* Names and paths of the model's filesystems.                             *)
(***************************************************************************)
N_s == <<115>>

N_dir == <<100, 105, 114>>

N_file == <<102, 105, 108, 101>>

N_link == <<108, 105, 110, 107>>

N_ab == <<97, 98>>

N_big == <<98, 105, 103>>

N_gone == <<103, 111, 110, 101>>

N_out == <<111, 117, 116>>

N_new == <<110, 101, 119>>

N_evil == <<101, 118, 105, 108>>

N_archive == <<97, 46, 99, 112, 105, 111>>

\* "meow", "hello" and "/dir/file"
Meow == <<109, 101, 111, 119>>

Hello == <<104, 101, 108, 108, 111>>

\* "old": what a file holds before an operation replaces it
OldBytes == <<111, 108, 100>>

LinkTarget == <<47>> \o N_dir \o <<47>> \o N_file

\* "../evil"
EvilName == DotDot \o <<47>> \o N_evil

SrcDir == <<N_s>>

OutDir == <<N_out>>

NewDir == <<N_new>>

ArchivePath == <<N_archive>>

Node(type, perm, data, ino) == [type |-> type, perm |-> perm, data |-> data, ino |-> ino]

NoCpio == [loaded |-> FALSE, mem |-> <<>>, format |-> "Newc"]

NoIter == [active |-> FALSE, index |-> 0, trailer_seen |-> FALSE,
           kind |-> "none", entry |-> 0, err |-> "none"]

Formats == {"Newc", "Crc"}

(***************************************************************************)
(* The operations.  res records what the last operation was given, what it *)
(* returned and the filesystem it started from.                            *)
(***************************************************************************)
\* CpioBuilder::insert
Insert(fs_path, archive_path) ==
    /\ Len(entries) < MaxEntries
    /\ res.op \in {"init", "insert"}
    /\ entries' = Append(entries, <<fs_path, InsertedPath(archive_path)>>)
    /\ res' = [op |-> "insert", status |-> "ok", err |-> "none", before |-> fs,
               fs_path |-> fs_path, archive_path |-> archive_path, had |-> entries]
    /\ UNCHANGED <<fs, bformat, cpio, iter>>

Written(gzip, r, img) ==
    /\ fs' = r.fs
    /\ res' = [op |-> "write", status |-> r.status, err |-> r.err, before |-> fs,
               gzip |-> gzip, image |-> IF img.ok THEN img.val ELSE <<>>]

\* CpioBuilder::write to the archive path
Write(gzip) ==
    /\ res.op \in {"init", "insert"}
    /\ Written(gzip, write(fs, entries, bformat, ArchivePath, gzip),
               WriteImage(fs, entries, bformat))
    /\ UNCHANGED <<entries, bformat, cpio, iter>>

Loaded(mem, fmt) ==
    /\ cpio' = IF fmt.ok THEN [loaded |-> TRUE, mem |-> mem, format |-> fmt.val] ELSE cpio
    /\ res' = [op |-> "load", status |-> IF fmt.ok THEN "ok" ELSE "err",
               err |-> IF fmt.ok THEN "none" ELSE fmt.err, before |-> fs]

\* Cpio::load of the bytes mem
Load(mem) ==
    /\ res.op \in {"init", "write"}
    /\ res.status = "ok"
    /\ Loaded(mem, identify_format(mem))
    /\ UNCHANGED <<fs, entries, bformat, iter>>

\* Cpio::iter_files
IterFiles ==
    /\ cpio.loaded
    /\ res.op = "load"
    /\ res.status = "ok"
    /\ iter' = [NoIter EXCEPT !.active = TRUE]
    /\ res' = [op |-> "iter_files", status |-> "ok", err |-> "none", before |-> fs]
    /\ UNCHANGED <<fs, entries, bformat, cpio>>

Stepped(r) ==
    /\ iter' = [active |-> TRUE, index |-> r.index, trailer_seen |-> r.trailer_seen,
                kind |-> r.kind, entry |-> r.entry, err |-> r.err]
    /\ res' = [op |-> "next", status |-> IF r.kind = "err" THEN "err" ELSE "ok",
               err |-> r.err, before |-> fs, from |-> iter]

\* CpioEntryIter::next
IterNext ==
    /\ iter.active
    /\ res.op \in {"iter_files", "next", "extract_one"}
    /\ Stepped(iter_next(iter, cpio.mem, cpio.format))
    /\ UNCHANGED <<fs, entries, bformat, cpio>>

Unarchived(output_path, r) ==
    /\ fs' = r.fs
    /\ res' = [op |-> "unarchive", status |-> r.status, err |-> r.err,
               before |-> fs, output_path |-> output_path,
               again |-> res.op = "unarchive"]

\* Cpio::unarchive, once or a second time into the same directory
Unarchive(output_path) ==
    /\ cpio.loaded
    /\ res.status = "ok"
    /\ \/ res.op = "load"
       \/ (res.op = "unarchive" /\ ~res.again /\ res.output_path = output_path)
    /\ Unarchived(output_path, unarchive(fs, output_path, cpio.mem, cpio.format))
    /\ UNCHANGED <<entries, bformat, cpio, iter>>

Extracted_one(output_path, r) ==
    /\ fs' = r.fs
    /\ res' = [op |-> "extract_one", status |-> r.status, err |-> r.err,
               before |-> fs, output_path |-> output_path, entry |-> iter.entry,
               again |-> res.op = "extract_one"]

\* Cpio::extract_one of the entry next() has just yielded, once or twice
ExtractOne(output_path) ==
    /\ cpio.loaded
    /\ iter.kind = "some"
    /\ res.op = "next" \/ (res.op = "extract_one" /\ ~res.again)
    /\ Extracted_one(output_path, extract_one(fs, output_path, cpio.mem, iter.entry))
    /\ UNCHANGED <<entries, bformat, cpio, iter>>

\* CpioEntry::file_content of the entry next() has just yielded
FileContent ==
    /\ res.op = "next"
    /\ iter.kind = "some"
    /\ res' = [op |-> "file_content", status |-> "ok", err |-> "none", before |-> fs,
               entry |-> iter.entry, got |-> file_content(cpio.mem, iter.entry)]
    /\ UNCHANGED <<fs, entries, bformat, cpio, iter>>

\* CpioEntry::name of the entry next() has just yielded
Name ==
    /\ res.op = "next"
    /\ iter.kind = "some"
    /\ res' = [op |-> "name", status |-> "ok", err |-> "none", before |-> fs,
               entry |-> iter.entry, got |-> name(cpio.mem, iter.entry)]
    /\ UNCHANGED <<fs, entries, bformat, cpio, iter>>

Pushed(archive_path, fs_path, internal_path, r) ==
    /\ fs' = r.fs
    /\ res' = [op |-> "push", status |-> r.status, err |-> r.err, before |-> fs,
               archive_path |-> archive_path, fs_path |-> fs_path,
               internal_path |-> internal_path]

\* Cpio::push
Push(archive_path, fs_path, internal_path) ==
    /\ cpio.loaded
    /\ res.op = "load"
    /\ res.status = "ok"
    /\ Pushed(archive_path, fs_path, internal_path,
              push(fs, archive_path, fs_path, internal_path, cpio.mem, cpio.format))
    /\ UNCHANGED <<entries, bformat, cpio, iter>>

\* the device fields of entry_bytes: major and minor of a raw device number
DevSplit ==
    /\ res.op = "dev"
    /\ res' = [op |-> "dev_split", status |-> "ok", err |-> "none", before |-> fs,
               dev |-> res.dev, major |-> major(res.dev), minor |-> minor(res.dev)]
    /\ UNCHANGED <<fs, entries, bformat, cpio, iter>>

(***************************************************************************)
(* Spec: the builder fed with arbitrary (filesystem path, archive path)    *)
(* pairs, its archive written, loaded, iterated and extracted.             *)
(***************************************************************************)
BigLen == 300

BuildFs ==
    (<<>> :> Node("dir", 493, <<>>, 2))
    @@ (SrcDir :> Node("dir", 493, <<>>, 3))
    @@ (<<N_s, N_dir>> :> Node("dir", 448, <<>>, 4))
    @@ (<<N_s, N_dir, N_file>> :> Node("reg", 511, Meow, 5))
    @@ (<<N_s, N_dir, N_link>> :> Node("lnk", 511, LinkTarget, 6))
    @@ (<<N_s, N_ab>> :> Node("reg", 420, Hello, 7))
    @@ (<<N_s, N_big>> :> Node("reg", 384, Zeros(BigLen), 8))
    @@ (OutDir :> Node("dir", 493, <<>>, 9))
    @@ (<<N_out, N_ab>> :> Node("reg", 384, OldBytes, 10))

\* the pairs a caller inserts
InsertPairs ==
    { <<SrcDir, <<>> >>,
      <<<<N_s, N_ab>>, <<>> >>,
      <<<<N_s, N_dir>>, N_dir>>,
      <<<<N_s, N_dir, N_file>>, N_dir \o <<47>> \o N_file>>,
      <<<<N_s, N_dir, N_link>>, N_dir \o <<47>> \o N_link>>,
      <<<<N_s, N_ab>>, N_ab>>,
      <<<<N_s, N_big>>, N_big>>,
      <<<<N_s, N_dir, N_file>>, EvilName>>,
      <<<<N_s, N_gone>>, N_gone>> }

\* what main.rs reads from the archive file
ArchiveBytes == IF Exists(fs, ArchivePath) THEN {fs[ArchivePath].data} ELSE {}

Init ==
    /\ fs = BuildFs
    /\ entries = <<>>
    /\ bformat \in Formats
    /\ cpio = NoCpio
    /\ iter = NoIter
    /\ res = [op |-> "init", status |-> "ok", err |-> "none", before |-> BuildFs]

Next ==
    \/ \E pair \in InsertPairs : Insert(pair[1], pair[2])
    \/ \E gzip \in BOOLEAN : Write(gzip)
    \/ \E mem \in ArchiveBytes : Load(mem)
    \/ IterFiles
    \/ IterNext
    \/ ExtractOne(OutDir)
    \/ \E o \in {OutDir, NewDir} : Unarchive(o)

Spec == Init /\ [][Next]_vars

(***************************************************************************)
(* Properties under Spec.                                                  *)
(***************************************************************************)
\* the archive path of some inserted entry has a ".." component that leads
\* out of the destination root
Escapes(comps) ==
    \E k \in 1..Len(comps) :
        Cardinality({j \in 1..k : comps[j] = DotDot})
            > Cardinality({j \in 1..k : comps[j] # DotDot})

HasEscapingEntry == \E i \in 1..Len(entries) : Escapes(Comps(entries[i][2]))

\* the paths the last operation created
Created == DOMAIN fs \ DOMAIN res.before

\* C1: unarchive of an archive with an entry named "../evil" (a ".."
\* component leading out of the destination root) fails with FileSystemError
\* and creates nothing outside the destination root.
C1_TraversalRejected ==
    (res.op = "unarchive" /\ HasEscapingEntry)
        => /\ res.status = "err"
           /\ res.err = "FileSystemError"
           /\ \A p \in Created : PathStartsWith(p, res.output_path)

\* C3: the image CpioBuilder::write emits (before gzip) has a length that is
\* a multiple of 512, whatever entries were inserted; without gzip it is what
\* the archive file holds.
C3_ImageMultipleOf512 ==
    (res.op = "write" /\ res.status = "ok")
        => /\ Len(res.image) > 0
           /\ Len(res.image) % 512 = 0
           /\ (~res.gzip => fs[ArchivePath].data = res.image)

\* a write of several entries whose image spans more than one block
C3_Witness ==
    /\ res.op = "write"
    /\ res.status = "ok"
    /\ Len(entries) >= 2
    /\ Len(res.image) > 512

\* the offset at which the builder starts its k-th entry (the trailer for
\* k = Len(entries) + 1): out.len() after the entries before it
StartOf(k) == Len(WriteEntries(fs, SubSeq(entries, 1, k - 1), bformat, 1, <<>>).val)

\* the offset at which the builder places the content of its k-th entry
HeaderOf(src, internal_path) ==
    to_bytes(BuilderEntry(src.meta, src.content, internal_path, bformat), bformat)

ContentPlacedAt(k) ==
    StartOf(k) + Len(EntryHead(HeaderOf(EntrySource(fs, entries[k][1], entries[k][2]).val,
                                        entries[k][2]),
                               entries[k][2], StartOf(k)))

\* the entry the iterator has just yielded
Yielded == res.op = "next" /\ iter.kind = "some"

\* C4: for every entry the iterator visits in an archive the builder wrote
\* (trailer included), the content and the next entry begin at multiples of
\* 4, and the decoder's offsets are those at which the builder placed the
\* content and the next header.
C4_OffsetsAligned ==
    Yielded =>
        /\ (iter.entry + file_content_offset(cpio.mem, iter.entry).val) % 4 = 0
        /\ iter.index % 4 = 0
        /\ iter.index <= Len(cpio.mem)
        /\ \E k \in 1..(Len(entries) + 1) :
              /\ StartOf(k) = iter.entry
              /\ k <= Len(entries) =>
                    /\ iter.entry + file_content_offset(cpio.mem, iter.entry).val
                           = ContentPlacedAt(k)
                    /\ iter.index = StartOf(k + 1)

\* a second entry with content, yielded at a nonzero offset
C4_Witness ==
    /\ Yielded
    /\ iter.entry > 0
    /\ ~is_trailer(cpio.mem, iter.entry).val
    /\ filesize(cpio.mem, iter.entry).val > 0
    /\ namesize(cpio.mem, iter.entry).val % 4 # 2

\* C9: unarchive into a destination root that does not exist yet creates the
\* directory and extracts into it.
C9_RootCreated ==
    (res.op = "unarchive" /\ ~Exists(res.before, res.output_path))
        => /\ Exists(fs, res.output_path)
           /\ fs[res.output_path].type = "dir"
           /\ res.status = "ok"

(***************************************************************************)
(* SpecDev: major and minor applied to raw device numbers.  The inputs are *)
(* the words with at most two bits set and their complements.              *)
(***************************************************************************)
DevWord(S, inv) == [i \in BitPos |-> IF (i \in S) # inv THEN 1 ELSE 0]

DevWords == {DevWord({i, j}, inv) : i \in BitPos, j \in BitPos, inv \in BOOLEAN}

InitDev ==
    /\ fs = BuildFs
    /\ entries = <<>>
    /\ bformat = "Newc"
    /\ cpio = NoCpio
    /\ iter = NoIter
    /\ \E dev \in DevWords :
          res = [op |-> "dev", status |-> "ok", err |-> "none", before |-> BuildFs,
                 dev |-> dev]

NextDev == DevSplit

SpecDev == InitDev /\ [][NextDev]_vars

\* C7: major(dev) is bits 8-19 of dev, minor(dev) is bits 0-7 of dev with
\* bits 20-31 of dev at its bits 8-19, and
\* (major << 8) | (minor & 0xff) | ((minor & 0xfff00) << 12) is dev again.
C7_DevSplit ==
    res.op = "dev_split" =>
        /\ \A i \in BitPos :
              /\ res.major[i] = (IF i <= 11 THEN res.dev[i + 8] ELSE 0)
              /\ res.minor[i] = (IF i <= 7 THEN res.dev[i]
                                 ELSE IF i <= 19 THEN res.dev[i + 12] ELSE 0)
        /\ OrW(OrW(ShlW(res.major, 8), AndW(res.minor, ToWord(255))),
               ShlW(AndW(res.minor, ToWord(1048320)), 12)) = res.dev

\* a device number with a high major bit and the top minor bit set
C7_Witness ==
    /\ res.op = "dev_split"
    /\ res.dev[31] = 1
    /\ res.dev[19] = 1
    /\ res.major[11] = 1
    /\ res.minor[19] = 1

(***************************************************************************)
(* SpecIter: archives given as raw bytes, loaded, iterated and pushed to.  *)
(* An archive is up to MaxRaw entries, each of one of RawKinds, then one   *)
(* of Tails.                                                               *)
(***************************************************************************)
MaxRaw == 2

NotHex == <<90, 90, 90, 90, 90, 90, 90, 90>>

OtherFormat(format) == IF format = "Newc" THEN "Crc" ELSE "Newc"

RawHeader(magic, c_mode, c_filesize, c_namesize) ==
    magic \o Hex8(1) \o c_mode \o Hex8(0) \o Hex8(0) \o Hex8(1) \o Hex8(0)
        \o c_filesize \o Hex8(0) \o Hex8(0) \o Hex8(0) \o Hex8(0)
        \o c_namesize \o Hex8(0)

TrailerText == SubSeq(TRAILER_NAME, 1, 10)

RawKinds == {"file", "trailer", "trailer_reg", "trailer_badmode",
             "trailer_content", "trailer_badsize", "lying", "badmagic",
             "badsize", "fake", "cut", "badmagic_badname", "longname"}

\* the bytes of an entry of a kind, placed at offset curr
RawEntry(kind, format, curr) ==
    LET magic == MagicOf(format)
        reg == Hex8(S_IFREG + 420)
    IN CASE kind = "file" ->
              EntryLayout(RawHeader(magic, reg, Hex8(5), Hex8(3)), N_ab, Hello, curr)
         [] kind = "trailer" ->
              EntryLayout(RawHeader(magic, Hex8(0), Hex8(0), Hex8(11)),
                          TrailerText, <<>>, curr)
         [] kind = "trailer_reg" ->
              EntryLayout(RawHeader(magic, reg, Hex8(0), Hex8(11)),
                          TrailerText, <<>>, curr)
         [] kind = "trailer_badmode" ->
              EntryLayout(RawHeader(magic, NotHex, Hex8(0), Hex8(11)),
                          TrailerText, <<>>, curr)
         [] kind = "trailer_content" ->
              EntryLayout(RawHeader(magic, Hex8(S_IFDIR + 493), Hex8(4), Hex8(11)),
                          TrailerText, Meow, curr)
         [] kind = "trailer_badsize" ->
              EntryLayout(RawHeader(magic, Hex8(0), NotHex, Hex8(11)),
                          TrailerText, <<>>, curr)
         [] kind = "lying" ->
              EntryLayout(RawHeader(magic, reg, Hex8(1024), Hex8(3)), N_ab, <<>>, curr)
         [] kind = "badmagic" ->
              EntryLayout(RawHeader(MagicOf(OtherFormat(format)), reg, Hex8(5), Hex8(4)),
                          N_big, Hello, curr)
         [] kind = "badsize" ->
              EntryLayout(RawHeader(magic, reg, NotHex, Hex8(4)), N_big, <<>>, curr)
         [] kind = "fake" ->
              EntryLayout(RawHeader(magic, reg, Hex8(0), Hex8(11)),
                          SubSeq(TrailerText, 1, 9) \o <<63>>, <<>>, curr)
         [] kind = "badmagic_badname" ->
              EntryLayout(RawHeader(MagicOf(OtherFormat(format)), reg, Hex8(0), NotHex),
                          N_big, <<>>, curr)
         [] kind = "longname" ->
              EntryLayout(RawHeader(magic, reg, Hex8(0), Hex8(256)), N_big, <<>>, curr)
         [] OTHER ->
              RawHeader(magic, Hex8(0), Hex8(0), Hex8(11))

RECURSIVE RawImage(_, _, _, _)
RawImage(kinds, format, i, out) ==
    IF i > Len(kinds) THEN out
    ELSE RawImage(kinds, format, i + 1, out \o RawEntry(kinds[i], format, Len(out)))

KindSeqs == UNION {[1..n -> RawKinds] : n \in 0..MaxRaw}

Tails == {<<>>, <<7, 7, 7>>}

RawArchives ==
    {RawImage(kinds, format, 1, <<>>) \o tail :
        kinds \in KindSeqs, format \in Formats, tail \in Tails}

\* "new2"
N_fresh == <<110, 101, 119, 50>>

IterFs == BuildFs @@ (ArchivePath :> Node("reg", 420, OldBytes, 11))

\* the pushes a caller makes: to the existing archive file or to a new one; a
\* fresh path, the path of the "file" entries, an unreadable source
PushTargets == {ArchivePath, NewDir}

PushPairs ==
    { <<<<N_s, N_ab>>, N_fresh>>,
      <<<<N_s, N_ab>>, N_ab>>,
      <<<<N_s, N_gone>>, N_fresh>> }

InitIter ==
    /\ fs = IterFs
    /\ entries = <<>>
    /\ bformat = "Newc"
    /\ cpio = NoCpio
    /\ iter = NoIter
    /\ res = [op |-> "init", status |-> "ok", err |-> "none", before |-> IterFs]

NextIter ==
    \/ \E mem \in RawArchives : Load(mem)
    \/ IterFiles
    \/ IterNext
    \/ FileContent
    \/ Name
    \/ \E a \in PushTargets, pair \in PushPairs : Push(a, pair[1], pair[2])

SpecIter == InitIter /\ [][NextIter]_vars

(***************************************************************************)
(* Properties under SpecIter.                                              *)
(***************************************************************************)
\* the bytes at offset i are a whole entry header with namesize 0x0B followed
\* by the name TRAILER!!!\0
NamedTrailer(mem, i) ==
    /\ i + CPIO_HEADER_LEN + Len(TRAILER_NAME) <= Len(mem)
    /\ ParseHex(Field(mem, i, 11)) = Ok(11)
    /\ Slice(mem, i + CPIO_HEADER_LEN, i + CPIO_HEADER_LEN + Len(TRAILER_NAME))
           = TRAILER_NAME

\* the header at offset i has the archive's magic and a hexadecimal filesize
HeaderReadable(mem, i, format) ==
    /\ StartsWith(mem, i, MagicOf(format))
    /\ ParseHex(Field(mem, i, 6)).ok

\* next() was called on an iterator that had not met the trailer, at an entry
\* named as the trailer
AtNamedTrailer ==
    /\ res.op = "next"
    /\ ~res.from.trailer_seen
    /\ NamedTrailer(cpio.mem, res.from.index)

C6_PushWritesLast ==
    res.op = "push" =>
        /\ res.status # "ok" => fs = res.before
        /\ fs # res.before =>
              PushImage(res.before, res.fs_path, res.internal_path,
                        cpio.mem, cpio.format).status = "ok"

\* a push of a path the archive already holds, to the existing archive file
C6_Witness ==
    /\ res.op = "push"
    /\ res.status = "panic"
    /\ res.archive_path = ArchivePath
    /\ fs[ArchivePath].data = OldBytes

\* C8 as stated: a yield strictly increases the offset, and after a yield
\* that put the offset at or beyond the end of the buffer the next call
\* returns EarlyEOFError.
C8_EarlyEOFAfterAnyHeader ==
    res.op = "next" =>
        /\ iter.kind = "some" => iter.index > res.from.index
        /\ (res.from.kind = "some" /\ res.from.index >= Len(cpio.mem))
              => (iter.kind = "err" /\ iter.err = "EarlyEOFError")

\* C8: a yield moves the offset forward by at least a header that lay within
\* the buffer, so a buffer of n bytes yields at most n / 110 entries; after
\* a yield of an entry other than the trailer that put the offset at or
\* beyond the end of the buffer the next call returns EarlyEOFError; after
\* the trailer it returns Ok(None).
C8_Terminates ==
    res.op = "next" =>
        /\ iter.kind = "some" =>
              /\ iter.entry = res.from.index
              /\ res.from.index + CPIO_HEADER_LEN <= Len(cpio.mem)
              /\ iter.index >= res.from.index + CPIO_HEADER_LEN
        /\ iter.kind # "some" => iter.index = res.from.index
        /\ (res.from.kind = "some" /\ res.from.index >= Len(cpio.mem)
                /\ ~res.from.trailer_seen)
              => (iter.kind = "err" /\ iter.err = "EarlyEOFError")
        /\ res.from.trailer_seen => iter.kind = "none"

\* the second entry's filesize pointed beyond the buffer, and the call after
\* its yield returned EarlyEOFError
C8_Witness ==
    /\ res.op = "next"
    /\ res.from.kind = "some"
    /\ res.from.entry > 0
    /\ res.from.index > Len(cpio.mem)
    /\ iter.kind = "err"
    /\ iter.err = "EarlyEOFError"

\* iteration from it meets an entry that is_trailer classifies as the trailer
RECURSIVE SeesTrailer(_, _, _)
SeesFrom(mem, format, r) ==
    r.trailer_seen \/ (r.kind = "some" /\ SeesTrailer(mem, format, r))

SeesTrailer(mem, format, it) == SeesFrom(mem, format, iter_next(it, mem, format))

\* C10: push on an archive without a trailer entry (the pushed path no
\* duplicate) fails with InvalidArchiveError 'Archive missing trailer.' and
\* leaves the filesystem as it was.
C10_MissingTrailer ==
    (res.op = "push" /\ res.status # "panic"
        /\ ~SeesTrailer(cpio.mem, cpio.format, IterStart))
        => /\ res.status = "err"
           /\ res.err = MissingTrailer
           /\ fs = res.before

(***************************************************************************)
(* SpecTree: a tree under SrcDir inserted path by path, parents first,     *)
(* into a CRC builder, written, loaded and extracted into OutDir.  A tree  *)
(* gives up to MaxEntries of TreePaths a kind each.                        *)
(***************************************************************************)
TreePaths == {<<N_dir>>, <<N_ab>>, <<N_dir, N_file>>, <<N_dir, N_link>>}

TreeIno ==
    (<<N_dir>> :> 4) @@ (<<N_ab>> :> 5) @@ (<<N_dir, N_file>> :> 6)
        @@ (<<N_dir, N_link>> :> 7)

TreeKinds ==
    { [type |-> "dir", perm |-> 493, data |-> <<>>],
      [type |-> "dir", perm |-> 448, data |-> <<>>],
      [type |-> "reg", perm |-> 420, data |-> Hello],
      [type |-> "reg", perm |-> 511, data |-> Meow],
      [type |-> "lnk", perm |-> 511, data |-> LinkTarget] }

TreeShapes ==
    {ps \in SUBSET TreePaths :
        /\ ps # {}
        /\ Cardinality(ps) <= MaxEntries
        /\ \A q \in ps : Len(q) = 1 \/ Parent(q) \in ps}

Trees ==
    {t \in UNION {[ps -> TreeKinds] : ps \in TreeShapes} :
        \A q \in DOMAIN t :
            (\E c \in DOMAIN t : c # q /\ Parent(c) = q) => t[q].type = "dir"}

TreeBase ==
    (<<>> :> Node("dir", 493, <<>>, 2))
    @@ (SrcDir :> Node("dir", 493, <<>>, 3))
    @@ (OutDir :> Node("dir", 493, <<>>, 9))

TreeFs(t) ==
    [p \in {SrcDir \o q : q \in DOMAIN t} |->
        Node(t[SubSeq(p, 2, Len(p))].type, t[SubSeq(p, 2, Len(p))].perm,
             t[SubSeq(p, 2, Len(p))].data, TreeIno[SubSeq(p, 2, Len(p))])]
    @@ TreeBase

\* the paths of the tree under SrcDir
TreeOf(f) == {p \in DOMAIN f : PathStartsWith(p, SrcDir) /\ p # SrcDir}

\* the paths of the tree a caller may insert next: not inserted yet, the
\* parent inserted already
ToInsert ==
    {p \in TreeOf(fs) :
        /\ \A i \in 1..Len(entries) : entries[i][1] # p
        /\ Parent(p) = SrcDir \/ \E i \in 1..Len(entries) : entries[i][1] = Parent(p)}

InitTree ==
    /\ \E t \in Trees : fs = TreeFs(t)
    /\ entries = <<>>
    /\ bformat = "Crc"
    /\ cpio = NoCpio
    /\ iter = NoIter
    /\ res = [op |-> "init", status |-> "ok", err |-> "none", before |-> fs]

NextTree ==
    \/ \E p \in ToInsert : Insert(p, InternalPath(SrcDir, p))
    \/ (ToInsert = {} /\ Write(FALSE))
    \/ \E mem \in ArchiveBytes : Load(mem)
    \/ Unarchive(OutDir)

SpecTree == InitTree /\ [][NextTree]_vars

\* the path under OutDir that corresponds to the path p under SrcDir
Extracted(p) == OutDir \o SubSeq(p, Len(SrcDir) + 1, Len(p))

\* C2: a tree inserted parents first into a CRC builder, written and
\* extracted with unarchive into the fresh directory OutDir comes out with
\* the same paths and, path by path, the same type, content or symlink
\* target, and permission bits.
C2_RoundTrip ==
    res.op = "unarchive" =>
        /\ res.status = "ok"
        /\ {q \in DOMAIN fs : PathStartsWith(q, OutDir) /\ q # OutDir}
               = {Extracted(p) : p \in TreeOf(fs)}
        /\ \A p \in TreeOf(fs) :
              /\ Extracted(p) \in DOMAIN fs
              /\ fs[Extracted(p)].type = fs[p].type
              /\ fs[Extracted(p)].data = fs[p].data
              /\ fs[Extracted(p)].perm = fs[p].perm

(***************************************************************************)
(* Properties of Cpio::push under SpecIter.                                *)
(***************************************************************************)
\* the offsets of the entries iteration yields from it on, in order, and how
\* the iteration ended ("none" or "err")
RECURSIVE YieldsFrom(_, _, _, _)
YieldsNext(mem, format, r, offs) ==
    IF r.kind # "some" THEN [offs |-> offs, end |-> r.kind]
    ELSE YieldsFrom(mem, format, r, Append(offs, r.entry))

YieldsFrom(mem, format, it, offs) ==
    YieldsNext(mem, format, iter_next(it, mem, format), offs)

Yields(mem, format) == YieldsFrom(mem, format, IterStart, <<>>)

IsZeros(s) == \A i \in 1..Len(s) : s[i] = 0

\* a push returned Ok
PushedOk == res.op = "push" /\ res.status = "ok"

\* out is head, the entry eb, a trailer of the format, then zeros only
RewrittenAs(out, head, eb, format) ==
    /\ Len(out) >= Len(head) + Len(eb) + Len(trailer_bytes(format))
    /\ SubSeq(out, 1, Len(head)) = head
    /\ SubSeq(out, Len(head) + 1, Len(head) + Len(eb)) = eb
    /\ SubSeq(out, Len(head) + Len(eb) + 1,
              Len(head) + Len(eb) + Len(trailer_bytes(format))) = trailer_bytes(format)
    /\ IsZeros(SubSeq(out, Len(head) + Len(eb) + Len(trailer_bytes(format)) + 1, Len(out)))

\* iterating out yields the entries before offset t as the original did, then
\* the entry at t named nm, then the trailer after it, and ends cleanly
IteratesAs(out, format, before, t, ebLen, nm) ==
    /\ Yields(out, format) = [offs |-> before \o <<t, t + ebLen>>, end |-> "none"]
    /\ name(out, t) = Ok(nm \o <<0>>)
    /\ is_trailer(out, t + ebLen) = Ok(TRUE)

PushRewrote(out, mem, format, orig, eb, nm) ==
    /\ orig.end = "none"
    /\ Len(orig.offs) > 0
    /\ RewrittenAs(out, Slice(mem, 0, orig.offs[Len(orig.offs)]), eb, format)
    /\ IteratesAs(out, format, SubSeq(orig.offs, 1, Len(orig.offs) - 1),
                  orig.offs[Len(orig.offs)], Len(eb), nm)

\* C11: after a successful push the archive file holds the original bytes
\* before the trailer's offset, then the new entry serialized in the
\* archive's format at that offset, then a trailer with the same magic, then
\* zeros only; iterating it yields the original entries before the trailer
\* in order, then the new entry, then the trailer.
C11_PushRewrites ==
    PushedOk =>
        PushRewrote(fs[res.archive_path].data, cpio.mem, cpio.format,
                    Yields(cpio.mem, cpio.format),
                    entry_bytes(res.before, res.fs_path, res.internal_path,
                                Yields(cpio.mem, cpio.format).offs[
                                    Len(Yields(cpio.mem, cpio.format).offs)],
                                cpio.format).val,
                    res.internal_path)

\* a push to the existing archive file of an archive that held an entry
\* before its trailer
C11_Witness ==
    /\ PushedOk
    /\ res.archive_path = ArchivePath
    /\ Len(Yields(cpio.mem, cpio.format).offs) >= 2
    /\ fs[ArchivePath].data # OldBytes

\* C12: the archive a successful push writes has a length that is a multiple
\* of 512.
C12_PushMultipleOf512 ==
    PushedOk => Len(fs[res.archive_path].data) % 512 = 0

(***************************************************************************)
(* Properties of the builder's entries under Spec.                         *)
(***************************************************************************)
\* the sum of the bytes of content, value by value
RECURSIVE ByteSum(_, _)
ByteSum(values, content) ==
    IF values = {} THEN 0
    ELSE LET v == CHOOSE x \in values : TRUE
         IN  v * Cardinality({i \in 1..Len(content) : content[i] = v})
                 + ByteSum(values \ {v}, content)

\* the content entry_bytes has to serialize for the k-th inserted pair: the
\* file's bytes, the symlink's target, nothing for a directory or for "."
ContentFor(node, internal_path) ==
    IF node.type = "lnk" THEN node.data
    ELSE IF node.type = "reg" /\ internal_path # Dot THEN node.data
    ELSE <<>>

ExpectedCheck(node, internal_path) ==
    IF bformat = "Newc" \/ node.type = "lnk" THEN 0
    ELSE U32(ByteSum({ContentFor(node, internal_path)[i] :
                          i \in 1..Len(ContentFor(node, internal_path))},
                     ContentFor(node, internal_path)))

\* a write returned Ok: res.image is the image it built
WroteOk == res.op = "write" /\ res.status = "ok"

\* C13: the checksum field of every entry the builder serializes is 0 in a
\* NEWC archive, 0 for a symlink in either format, and otherwise the sum of
\* the content bytes modulo 2^32; the "." entry and directories, having no
\* content, get 0.
C13_Checksum ==
    WroteOk =>
        \A k \in 1..Len(entries) :
            /\ checksum(res.image, StartOf(k))
                   = Ok(ExpectedCheck(fs[entries[k][1]], entries[k][2]))
            /\ (fs[entries[k][1]].type = "dir" \/ entries[k][2] = Dot)
                   => checksum(res.image, StartOf(k)) = Ok(0)

\* a CRC archive with a regular file of nonzero sum and a symlink
C13_Witness ==
    /\ WroteOk
    /\ bformat = "Crc"
    /\ \E k \in 1..Len(entries) :
          /\ fs[entries[k][1]].type = "reg"
          /\ checksum(res.image, StartOf(k)).val > 0
    /\ \E k \in 1..Len(entries) : fs[entries[k][1]].type = "lnk"

\* the image holds the entries in order: the k-th entry iteration yields has
\* the k-th stored archive path as its name, the trailer comes last, and a
\* "." entry has filesize 0 and is followed at once by the next header
SerializedInOrder(image, ys) ==
    /\ ys.end = "none"
    /\ Len(ys.offs) = Len(entries) + 1
    /\ is_trailer(image, ys.offs[Len(ys.offs)]) = Ok(TRUE)
    /\ \A k \in 1..Len(entries) :
          /\ name(image, ys.offs[k]) = Ok(entries[k][2] \o <<0>>)
          /\ entries[k][2] = Dot =>
                /\ filesize(image, ys.offs[k]) = Ok(0)
                /\ ys.offs[k + 1] = ys.offs[k] + CPIO_HEADER_LEN + 2

TrailerAt(image, t, format, nlink) ==
    /\ t + CPIO_HEADER_LEN + Len(TRAILER_NAME) <= Len(image)
    /\ Slice(image, t, t + CPIO_MAGIC_LEN) = MagicOf(format)
    /\ \A k \in 0..12 :
          Field(image, t, k) = Hex8(IF k = 11 THEN 11 ELSE IF k = 4 THEN nlink ELSE 0)
    /\ Slice(image, t + CPIO_HEADER_LEN, t + CPIO_HEADER_LEN + Len(TRAILER_NAME))
           = TRAILER_NAME

\* C14 as stated: the trailer the builder writes is the format's magic, a
\* 104-byte field block with namesize 0x0B, filesize 0 and every other field
\* zero, then the name TRAILER!!!\0.
C14_TrailerAllZero ==
    WroteOk => TrailerAt(res.image, StartOf(Len(entries) + 1), bformat, 0)

\* C14: the trailer the builder writes is the format's magic, a 104-byte
\* field block with namesize 0x0B, nlink 1, filesize 0 and every other field
\* zero, then the name TRAILER!!!\0.
C14_Trailer ==
    /\ Len(TRAILER_FIELDS) = 13 * CPIO_FIELD_LEN
    /\ WroteOk => TrailerAt(res.image, StartOf(Len(entries) + 1), bformat, 1)

\* a CRC archive with entries before its trailer
C14_Witness ==
    /\ WroteOk
    /\ bformat = "Crc"
    /\ Len(entries) >= 1
    /\ StartOf(Len(entries) + 1) > 0

(***************************************************************************)
(* Properties of extraction under Spec.                                    *)
(***************************************************************************)
\* the path extract_one works on for the entry at offset e
JoinedOf(output_path, e) == JoinedPath(output_path, TrimNul(name(cpio.mem, e).val))

\* the entry at offset e is a regular file, a directory or a symlink that
\* extract_one has to create below the root, and the object it would create
\* exists already in f
DestinationExists(f, output_path, e) ==
    /\ name(cpio.mem, e).ok
    /\ JoinedOf(output_path, e) # output_path
    /\ PathStartsWith(JoinedOf(output_path, e), output_path)
    /\ is_reg(cpio.mem, e).val \/ is_dir(cpio.mem, e).val \/ is_link(cpio.mem, e).val
    /\ Resolve(f, JoinedOf(output_path, e), FALSE).ok
    /\ Exists(f, Resolve(f, JoinedOf(output_path, e), FALSE).val)

\* the archive has an entry other than the trailer and the root placeholder
HasNonRootEntry(output_path, offs) ==
    \E i \in 1..Len(offs) :
        /\ ~is_trailer(cpio.mem, offs[i]).val
        /\ JoinedOf(output_path, offs[i]) # output_path

FailedUntouched ==
    /\ res.status = "err"
    /\ res.err = "FileSystemError"
    /\ fs = res.before

\* C15: extract_one of a regular-file, directory or symlink entry whose
\* destination exists fails with FileSystemError and leaves the filesystem,
\* the existing object included, as it was; a second unarchive of an archive
\* with a non-root entry into the same directory fails so before it creates
\* anything.
C15_ExistingKept ==
    /\ (res.op = "extract_one" /\ DestinationExists(res.before, res.output_path, res.entry))
          => FailedUntouched
    /\ (res.op = "unarchive" /\ res.again
            /\ HasNonRootEntry(res.output_path, Yields(cpio.mem, cpio.format).offs))
          => FailedUntouched

\* a regular-file entry met a file with other content at its destination
C15_Witness ==
    /\ res.op = "extract_one"
    /\ ~res.again
    /\ res.status = "err"
    /\ is_reg(cpio.mem, res.entry).val
    /\ JoinedOf(res.output_path, res.entry) = <<N_out, N_ab>>
    /\ fs[<<N_out, N_ab>>].data = OldBytes

(***************************************************************************)
(* Properties of the iterator's errors and of the accessors (SpecIter).    *)
(***************************************************************************)
\* next() was called on an iterator that had not met the trailer, at a whole
\* header whose magic is not that of the archive's format
AtForeignMagic ==
    /\ res.op = "next"
    /\ ~res.from.trailer_seen
    /\ res.from.index + CPIO_HEADER_LEN <= Len(cpio.mem)
    /\ ~StartsWith(cpio.mem, res.from.index, MagicOf(cpio.format))

\* C17: when the iterator reaches an entry whose magic is not that of the
\* archive's format, next() returns InvalidArchiveError and yields nothing,
\* whatever the entry's other header fields hold.
C17_ForeignMagicInvalid ==
    AtForeignMagic => (iter.kind = "err" /\ iter.err = InvalidMagic)

\* the content region of the entry, when its namesize and filesize are read
ContentRegion(mem, index) ==
    [ok |-> file_content_offset(mem, index).ok /\ filesize(mem, index).ok,
     from |-> index + file_content_offset(mem, index).val,
     to |-> index + file_content_offset(mem, index).val + filesize(mem, index).val]

\* C18: file_content returns EarlyEOFError only when the content region
\* reaches past the end of the buffer; a region that lies within the buffer,
\* one that ends at the buffer's end or is empty included, is returned whole.
C18_ContentWithinBuffer ==
    (res.op = "file_content" /\ ContentRegion(cpio.mem, res.entry).ok) =>
        IF ContentRegion(cpio.mem, res.entry).to <= Len(cpio.mem)
        THEN res.got = Ok(Slice(cpio.mem, ContentRegion(cpio.mem, res.entry).from,
                                          ContentRegion(cpio.mem, res.entry).to))
        ELSE res.got = Err("EarlyEOFError")

\* C19: the name region of every entry next() yields lies within the buffer,
\* so that name() of a yielded entry does not return EarlyEOFError.
C19_YieldedNameInBuffer ==
    /\ Yielded =>
          iter.entry + CPIO_HEADER_LEN + namesize(cpio.mem, iter.entry).val
              <= Len(cpio.mem)
    /\ res.op = "name" => res.got.err # "EarlyEOFError"

\* C20: once next() has returned an error every later next() of the same
\* iterator returns an error: never Ok(None), never an entry.
C20_ErrorsSticky ==
    (res.op = "next" /\ res.from.kind = "err") => iter.kind = "err"

(***************************************************************************)
(* Properties of a failing write (Spec).                                   *)
(***************************************************************************)
\* write failed because an entry could not be serialized
WriteFailedAtEntry ==
    /\ res.op = "write"
    /\ res.status = "err"
    /\ ~WriteImage(res.before, entries, bformat).ok

\* C21: when write fails while it serializes an entry, the archive path is
\* as it was before the call, neither created nor truncated, with and
\* without gzip.
C21_FailedWriteKeepsPath ==
    WriteFailedAtEntry =>
        /\ Exists(fs, ArchivePath) = Exists(res.before, ArchivePath)
        /\ Exists(fs, ArchivePath) => fs[ArchivePath] = res.before[ArchivePath]

=============================================================================
